---- MODULE Spec2Model ----
(***************************************************************************)
(* Command history store of codex-cli (utils/storage/command-history.ts):  *)
(* loadCommandHistory, saveCommandHistory, addToHistory,                   *)
(* isSensitiveCommand and clearCommandHistory, together with the backing   *)
(* file ~/.codex/history.json.                                             *)
(*                                                                         *)
(* A JavaScript string is a sequence of one-character strings.  A          *)
(* JavaScript value is a tagged record (JStr, JNum, JArr, JObj).  The      *)
(* content of the backing file is a sequence of JSON tokens; a string      *)
(* token carries the escaped characters that stand between the quotes and  *)
(* a number token carries its decimal digits.                              *)
(*                                                                         *)
(* history is the sequence held by the caller; peer is a second caller of  *)
(* the same functions on the same file (another process), with the         *)
(* sequence it holds.                                                      *)
(***************************************************************************)
EXTENDS Integers, Sequences, FiniteSets, TLC

VARIABLES file, history, config, last, script, peer

vars == <<file, history, config, last, script, peer>>

(***************************************************************************)
(* Bounds of the model.                                                    *)
(***************************************************************************)
MaxHist == 3        \* longest in-memory sequence an append may extend
MaxCfgSize == 2     \* config.maxSize ranges over 1..MaxCfgSize and the default
MaxSeq == 2         \* longest sequence handed to a single call

(***************************************************************************)
(* Characters and strings.                                                 *)
(***************************************************************************)
Lower == <<"a","b","c","d","e","f","g","h","i","j","k","l","m",
           "n","o","p","q","r","s","t","u","v","w","x","y","z">>
Upper == <<"A","B","C","D","E","F","G","H","I","J","K","L","M",
           "N","O","P","Q","R","S","T","U","V","W","X","Y","Z">>
Digit == <<"0","1","2","3","4","5","6","7","8","9">>

Range(s) == {s[i] : i \in 1..Len(s)}

Min(S) == CHOOSE x \in S : \A y \in S : x <= y
Max(S) == CHOOSE x \in S : \A y \in S : x >= y

\* String.prototype.toLowerCase on one character
UpperChars == Range(Upper)
WordChars == Range(Lower) \cup Range(Upper) \cup Range(Digit) \cup {"_"}
DigitChars == Range(Digit)

ToLowerCase(c) ==
  IF c \in UpperChars
  THEN Lower[CHOOSE i \in 1..Len(Upper) : Upper[i] = c]
  ELSE c

LowerCased(s) == [i \in 1..Len(s) |-> ToLowerCase(s[i])]

\* \w of a regular expression
IsWordChar(c) == c \in WordChars

\* the class [A-Za-z0-9-_]
IsTokenChar(c) == IsWordChar(c) \/ c = "-"

\* white space as String.prototype.trim removes it
IsSpace(c) == c \in {" ", "\t", "\n"}

\* String.prototype.trim
RECURSIVE TrimStart(_)
TrimStart(s) ==
  IF s # <<>> /\ IsSpace(Head(s)) THEN TrimStart(Tail(s)) ELSE s

RECURSIVE TrimEnd(_)
TrimEnd(s) ==
  IF s # <<>> /\ IsSpace(s[Len(s)]) THEN TrimEnd(SubSeq(s, 1, Len(s) - 1)) ELSE s

Trim(s) == TrimEnd(TrimStart(s))

\* \b at position i of s: between s[i-1] and s[i], the ends counting as non-word
WordBoundary(s, i) ==
  LET before == i > 1 /\ i - 1 <= Len(s) /\ IsWordChar(s[i - 1])
      after  == i >= 1 /\ i <= Len(s) /\ IsWordChar(s[i])
  IN  before # after

(***************************************************************************)
(* Regular expressions.                                                    *)
(***************************************************************************)
TokenMinLen == 20

\* /\b[A-Za-z0-9-_]{20,}\b/.test(s)
MatchesToken(s) ==
  \E i \in 1..Len(s) : \E j \in i..Len(s) :
    /\ j - i + 1 >= TokenMinLen
    /\ \A k \in i..j : IsTokenChar(s[k])
    /\ WordBoundary(s, i)
    /\ WordBoundary(s, j + 1)

\* mutant: the i flag is missing
MatchesWordCaseSensitive(s, w) ==
  \E i \in 1..(Len(s) - Len(w) + 1) :
    /\ SubSeq(s, i, i + Len(w) - 1) = w
    /\ WordBoundary(s, i)
    /\ WordBoundary(s, i + Len(w))

\* /\bw\b/i.test(s), for a lower-case word w
MatchesWord(s, w) ==
  \E i \in 1..(Len(s) - Len(w) + 1) :
    /\ LowerCased(SubSeq(s, i, i + Len(w) - 1)) = w
    /\ WordBoundary(s, i)
    /\ WordBoundary(s, i + Len(w))

WPassword == <<"p","a","s","s","w","o","r","d">>
WSecret == <<"s","e","c","r","e","t">>
WToken == <<"t","o","k","e","n">>
WKey == <<"k","e","y">>

\* the built-in patterns, in the order of the array
SENSITIVE_PATTERNS ==
  << [kind |-> "token", w |-> <<>>],
     [kind |-> "word", w |-> WPassword],
     [kind |-> "word", w |-> WSecret],
     [kind |-> "word", w |-> WToken],
     [kind |-> "word", w |-> WKey] >>

\* pattern.test(command) for a built-in pattern
BuiltinTest(p, s) ==
  IF p.kind = "token" THEN MatchesToken(s) ELSE MatchesWord(s, p.w)

(***************************************************************************)
(* new RegExp(source) for the pattern sources of the model: literal        *)
(* characters and character classes [...].  A class that is not closed is  *)
(* a SyntaxError.  A compiled pattern is a sequence of character sets.     *)
(***************************************************************************)
RECURSIVE CompileFrom(_, _, _)
CompileFrom(src, i, acc) ==
  IF i > Len(src) THEN [ok |-> TRUE, re |-> acc]
  ELSE IF src[i] = "["
       THEN LET close == {j \in (i + 1)..Len(src) : src[j] = "]"}
            IN  IF close = {} THEN [ok |-> FALSE, re |-> <<>>]
                ELSE CompileFrom(src, Min(close) + 1,
                       Append(acc, {src[j] : j \in (i + 1)..(Min(close) - 1)}))
       ELSE CompileFrom(src, i + 1, Append(acc, {src[i]}))

RegExpCompile(src) == CompileFrom(src, 1, <<>>)

\* pattern.test(command) for a compiled caller pattern (unanchored search)
RegExpTest(re, s) ==
  \E i \in 1..(Len(s) - Len(re) + 1) :
    \A k \in 1..Len(re) : s[i + k - 1] \in re[k]

\* mutant: a pattern that does not compile ends the loop
AdditionalMatchStopsAtError(command, additionalPatterns) ==
  \E n \in 1..Len(additionalPatterns) :
    /\ \A m \in 1..n : RegExpCompile(additionalPatterns[m]).ok
    /\ RegExpTest(RegExpCompile(additionalPatterns[n]).re, command)

\* the second loop of isSensitiveCommand: the try/catch skips a bad pattern
AdditionalMatch(command, additionalPatterns) ==
  \E n \in 1..Len(additionalPatterns) :
    LET c == RegExpCompile(additionalPatterns[n])
    IN  c.ok /\ RegExpTest(c.re, command)

\* mutant: the patterns of the caller are not tried
isSensitiveBuiltinOnly(command, additionalPatterns) ==
  \E n \in 1..Len(SENSITIVE_PATTERNS) : BuiltinTest(SENSITIVE_PATTERNS[n], command)

isSensitiveCommand(command, additionalPatterns) ==
  \/ \E n \in 1..Len(SENSITIVE_PATTERNS) : BuiltinTest(SENSITIVE_PATTERNS[n], command)
  \/ AdditionalMatch(command, additionalPatterns)

(***************************************************************************)
(* JavaScript values and JSON.                                             *)
(***************************************************************************)
JStr(s) == [t |-> "str", s |-> s]
JNum(n) == [t |-> "num", n |-> n]
JArr(els) == [t |-> "arr", els |-> els]
JObj(mem) == [t |-> "obj", mem |-> mem]

KeyCommand == <<"c","o","m","m","a","n","d">>
KeyTimestamp == <<"t","i","m","e","s","t","a","m","p">>

\* a HistoryEntry object { command, timestamp }
HistoryEntry(command, timestamp) ==
  JObj(<< [k |-> KeyCommand, v |-> JStr(command)],
          [k |-> KeyTimestamp, v |-> JNum(timestamp)] >>)

\* entry.command; an absent property reads as undefined
CommandOf(e) ==
  IF e.t = "obj" /\ \E n \in 1..Len(e.mem) : e.mem[n].k = KeyCommand
  THEN e.mem[Max({n \in 1..Len(e.mem) : e.mem[n].k = KeyCommand})].v
  ELSE [t |-> "undefined"]

Commands(h) == [i \in 1..Len(h) |-> CommandOf(h[i])]

\* tokens of a JSON text
Punct(c) == [k |-> "p", c |-> c]
StrTok(s) == [k |-> "str", s |-> s]
NumTok(d) == [k |-> "num", d |-> d]
Ws == [k |-> "ws"]
BadTok == [k |-> "bad"]

\* mutant: the characters are written as they are
EscapeNothing(s) == s

\* the characters of a JSON string literal between its quotes
RECURSIVE Escape(_)
Escape(s) ==
  IF s = <<>> THEN <<>>
  ELSE (IF Head(s) \in {"\"", "\\"} THEN <<"\\", Head(s)>>
        ELSE IF Head(s) = "\n" THEN <<"\\", "n">>
        ELSE IF Head(s) = "\t" THEN <<"\\", "t">>
        ELSE <<Head(s)>>) \o Escape(Tail(s))

\* the inverse, as JSON.parse reads a string literal; ok is FALSE on a bad escape
RECURSIVE Unescape(_)
Unescape(s) ==
  IF s = <<>> THEN [ok |-> TRUE, s |-> <<>>]
  ELSE IF Head(s) = "\\"
       THEN IF Len(s) < 2 \/ s[2] \notin {"\"", "\\", "n", "t"}
            THEN [ok |-> FALSE, s |-> <<>>]
            ELSE LET r == Unescape(SubSeq(s, 3, Len(s)))
                     c == IF s[2] = "n" THEN "\n" ELSE IF s[2] = "t" THEN "\t" ELSE s[2]
                 IN  [ok |-> r.ok, s |-> <<c>> \o r.s]
       ELSE IF Head(s) \in {"\"", "\n", "\t"}
            THEN [ok |-> FALSE, s |-> <<>>]
            ELSE LET r == Unescape(Tail(s))
                 IN  [ok |-> r.ok, s |-> <<Head(s)>> \o r.s]

\* decimal digits of a non-negative integer, and back
RECURSIVE ToDigits(_)
ToDigits(n) ==
  IF n < 10 THEN <<Digit[n + 1]>>
  ELSE Append(ToDigits(n \div 10), Digit[(n % 10) + 1])

DigitValue(c) == (CHOOSE i \in 1..Len(Digit) : Digit[i] = c) - 1

RECURSIVE FromDigits(_)
FromDigits(d) ==
  IF Len(d) = 1 THEN DigitValue(d[1])
  ELSE 10 * FromDigits(SubSeq(d, 1, Len(d) - 1)) + DigitValue(d[Len(d)])

\* a JSON number literal: digits, no leading zero
IsNumberLiteral(d) ==
  /\ Len(d) >= 1
  /\ \A i \in 1..Len(d) : d[i] \in DigitChars
  /\ (Len(d) > 1 => d[1] # "0")

LBracket == Punct("[")
RBracket == Punct("]")
LBrace == Punct("{")
RBrace == Punct("}")
Comma == Punct(",")
Colon == Punct(":")

\* the white space JSON.stringify puts at a line break: none without indentation
Gap(space) == IF space > 0 THEN <<Ws>> ELSE <<>>

\* JSON.stringify(v, null, space)
RECURSIVE Stringify(_, _)
RECURSIVE StringifyElements(_, _)
RECURSIVE StringifyMembers(_, _)
StringifyElements(els, space) ==
  IF Len(els) = 1 THEN Stringify(els[1], space)
  ELSE Stringify(els[1], space) \o <<Comma>> \o Gap(space)
         \o StringifyElements(Tail(els), space)

StringifyMembers(mem, space) ==
  LET one == <<StrTok(Escape(mem[1].k)), Colon>> \o Gap(space)
               \o Stringify(mem[1].v, space)
  IN  IF Len(mem) = 1 THEN one
      ELSE one \o <<Comma>> \o Gap(space) \o StringifyMembers(Tail(mem), space)

Stringify(v, space) ==
  CASE v.t = "str" -> <<StrTok(Escape(v.s))>>
    [] v.t = "num" -> <<NumTok(ToDigits(v.n))>>
    [] v.t = "arr" ->
         IF v.els = <<>> THEN <<LBracket, RBracket>>
         ELSE <<LBracket>> \o Gap(space) \o StringifyElements(v.els, space)
                \o Gap(space) \o <<RBracket>>
    [] v.t = "obj" ->
         IF v.mem = <<>> THEN <<LBrace, RBrace>>
         ELSE <<LBrace>> \o Gap(space) \o StringifyMembers(v.mem, space)
                \o Gap(space) \o <<RBrace>>

\* index of the first token at or after i that is not white space
RECURSIVE SkipWs(_, _)
SkipWs(toks, i) ==
  IF i <= Len(toks) /\ toks[i] = Ws THEN SkipWs(toks, i + 1) ELSE i

ParseFail == [ok |-> FALSE]

\* recursive descent over the tokens; a result is [ok, v, i], i the next index
RECURSIVE ParseValue(_, _)
RECURSIVE ParseElements(_, _, _)
RECURSIVE ParseMembers(_, _, _)
ParseValue(toks, i0) ==
  LET i == SkipWs(toks, i0)
  IN  IF i > Len(toks) THEN ParseFail
      ELSE CASE toks[i].k = "str" ->
                  LET u == Unescape(toks[i].s)
                  IN  IF u.ok THEN [ok |-> TRUE, v |-> JStr(u.s), i |-> i + 1]
                      ELSE ParseFail
             [] toks[i].k = "num" ->
                  IF IsNumberLiteral(toks[i].d)
                  THEN [ok |-> TRUE, v |-> JNum(FromDigits(toks[i].d)), i |-> i + 1]
                  ELSE ParseFail
             [] toks[i] = LBracket -> ParseElements(toks, i + 1, <<>>)
             [] toks[i] = LBrace -> ParseMembers(toks, i + 1, <<>>)
             [] OTHER -> ParseFail

ParseElements(toks, i0, acc) ==
  LET i == SkipWs(toks, i0)
  IN  IF i > Len(toks) THEN ParseFail
      ELSE IF toks[i] = RBracket /\ acc = <<>>
           THEN [ok |-> TRUE, v |-> JArr(<<>>), i |-> i + 1]
           ELSE LET r == ParseValue(toks, i)
                IN  IF ~r.ok THEN ParseFail
                    ELSE LET j == SkipWs(toks, r.i)
                         IN  IF j > Len(toks) THEN ParseFail
                             ELSE IF toks[j] = Comma
                                  THEN ParseElements(toks, j + 1, Append(acc, r.v))
                                  ELSE IF toks[j] = RBracket
                                       THEN [ok |-> TRUE, v |-> JArr(Append(acc, r.v)),
                                             i |-> j + 1]
                                       ELSE ParseFail

ParseMembers(toks, i0, acc) ==
  LET i == SkipWs(toks, i0)
  IN  IF i > Len(toks) THEN ParseFail
      ELSE IF toks[i] = RBrace /\ acc = <<>>
           THEN [ok |-> TRUE, v |-> JObj(<<>>), i |-> i + 1]
           ELSE IF toks[i].k # "str" \/ ~Unescape(toks[i].s).ok THEN ParseFail
           ELSE LET c == SkipWs(toks, i + 1)
                IN  IF c > Len(toks) \/ toks[c] # Colon THEN ParseFail
                    ELSE LET r == ParseValue(toks, c + 1)
                         IN  IF ~r.ok THEN ParseFail
                             ELSE LET j == SkipWs(toks, r.i)
                                      m == [k |-> Unescape(toks[i].s).s, v |-> r.v]
                                  IN  IF j > Len(toks) THEN ParseFail
                                      ELSE IF toks[j] = Comma
                                           THEN ParseMembers(toks, j + 1, Append(acc, m))
                                           ELSE IF toks[j] = RBrace
                                                THEN [ok |-> TRUE,
                                                      v |-> JObj(Append(acc, m)),
                                                      i |-> j + 1]
                                                ELSE ParseFail

\* JSON.parse(text): ok is FALSE where it throws a SyntaxError
JSONParse(toks) ==
  LET r == ParseValue(toks, 1)
  IN  IF r.ok /\ SkipWs(toks, r.i) > Len(toks) THEN [ok |-> TRUE, v |-> r.v]
      ELSE ParseFail

\* Array.prototype.slice(start)
ArraySlice(a, start) ==
  LET from == IF start < 0
              THEN (IF Len(a) + start > 0 THEN Len(a) + start ELSE 0)
              ELSE (IF start < Len(a) THEN start ELSE Len(a))
  IN  SubSeq(a, from + 1, Len(a))

(***************************************************************************)
(* The backing file and the file system.  A write that fails either never  *)
(* opened the file (the file is as before) or stopped after a prefix of    *)
(* the data: fs.writeFile truncates the file when it opens it and is not   *)
(* atomic.                                                                 *)
(***************************************************************************)
Absent == [exists |-> FALSE, data |-> <<>>]
Present(data) == [exists |-> TRUE, data |-> data]

ReadOutcomes == {"ok", "readfail"}
WriteOutcomes == {"ok", "mkdirfail", "openfail", "partial"}

\* where a failing write may stop: before the first token (0), or half way (1)
PartialCuts == {0, 1}
CutLength(data, cut) == (cut * Len(data)) \div 2

\* fs.writeFile(HISTORY_FILE, data, "utf-8") under outcome io
WriteFile(f, data, io, cut) ==
  CASE io = "ok" -> Present(data)
    [] io = "partial" -> Present(SubSeq(data, 1, CutLength(data, cut)))
    [] OTHER -> f

(***************************************************************************)
(* The operations of command-history.ts.                                   *)
(***************************************************************************)
DEFAULT_HISTORY_SIZE == 1000

DEFAULT_HISTORY_CONFIG ==
  [maxSize |-> DEFAULT_HISTORY_SIZE, saveHistory |-> TRUE, sensitivePatterns |-> <<>>]

\* mutant: a parsed value that is no array is returned as an array of one value
loadWrapsNonArray(f, io) ==
  IF ~f.exists THEN <<>>
  ELSE IF io = "readfail" THEN <<>>
  ELSE LET parsed == JSONParse(f.data)
       IN  IF ~parsed.ok THEN <<>>
           ELSE IF parsed.v.t = "arr" THEN parsed.v.els ELSE <<parsed.v>>

\* loadCommandHistory(): every failure is caught and yields []
loadCommandHistory(f, io) ==
  IF ~f.exists THEN <<>>
  ELSE IF io = "readfail" THEN <<>>
  ELSE LET parsed == JSONParse(f.data)
       IN  IF ~parsed.ok THEN <<>>
           ELSE IF parsed.v.t = "arr" THEN parsed.v.els ELSE <<>>

\* mutant: no trimming at all
TrimNothing(h, cfg) == h

\* mutant: keeps the oldest entries, slice(0, maxSize)
TrimKeepsOldest(h, cfg) ==
  SubSeq(h, 1, IF Len(h) < cfg.maxSize THEN Len(h) ELSE cfg.maxSize)

\* history.slice(-config.maxSize)
TrimToMaxSize(h, cfg) == ArraySlice(h, 0 - cfg.maxSize)

\* mutant: the file is written only when it exists, as clear does
saveOnlyExisting(f, h, cfg, io, cut) ==
  IF io = "mkdirfail" \/ ~f.exists THEN f
  ELSE WriteFile(f, Stringify(JArr(TrimToMaxSize(h, cfg)), 2), io, cut)

\* saveCommandHistory(history, config): the file it leaves; errors are caught
saveCommandHistory(f, h, cfg, io, cut) ==
  IF io = "mkdirfail" THEN f
  ELSE WriteFile(f, Stringify(JArr(TrimToMaxSize(h, cfg)), 2), io, cut)

\* mutant: the check for sensitive commands is missing
RejectedNoFilter(command, h, cfg) ==
  \/ ~cfg.saveHistory
  \/ Trim(command) = <<>>
  \/ (h # <<>> /\ CommandOf(h[Len(h)]) = JStr(command))

\* mutant: a command is a duplicate when any entry holds it
RejectedAnyDuplicate(command, h, cfg) ==
  \/ ~cfg.saveHistory
  \/ Trim(command) = <<>>
  \/ isSensitiveCommand(command, cfg.sensitivePatterns)
  \/ \E i \in 1..Len(h) : CommandOf(h[i]) = JStr(command)

\* mutant: the command is compared with "" without trimming it
RejectedNoTrim(command, h, cfg) ==
  \/ ~cfg.saveHistory
  \/ command = <<>>
  \/ isSensitiveCommand(command, cfg.sensitivePatterns)
  \/ (h # <<>> /\ CommandOf(h[Len(h)]) = JStr(command))

\* mutant: the comparison with the last entry is missing
RejectedNoDuplicateCheck(command, h, cfg) ==
  \/ ~cfg.saveHistory
  \/ Trim(command) = <<>>
  \/ isSensitiveCommand(command, cfg.sensitivePatterns)

\* mutant: the command is compared with the first entry
RejectedFirstEntry(command, h, cfg) ==
  \/ ~cfg.saveHistory
  \/ Trim(command) = <<>>
  \/ isSensitiveCommand(command, cfg.sensitivePatterns)
  \/ (h # <<>> /\ CommandOf(h[1]) = JStr(command))

\* the three early returns of addToHistory
Rejected(command, h, cfg) ==
  \/ ~cfg.saveHistory
  \/ Trim(command) = <<>>
  \/ isSensitiveCommand(command, cfg.sensitivePatterns)
  \/ (h # <<>> /\ CommandOf(h[Len(h)]) = JStr(command))

\* mutant: the old sequence is returned when the save failed
addToHistoryDropsOnError(command, h, cfg, f, now, io, cut) ==
  IF Rejected(command, h, cfg)
  THEN [ret |-> h, file |-> f, saved |-> FALSE]
  ELSE LET newHistory == Append(h, HistoryEntry(command, now))
       IN  [ret |-> IF io = "ok" THEN newHistory ELSE h,
            file |-> saveCommandHistory(f, newHistory, cfg, io, cut),
            saved |-> TRUE]

\* mutant: the new entry is written after the entries the file holds now
addToHistoryMerges(command, h, cfg, f, now, io, cut) ==
  IF Rejected(command, h, cfg)
  THEN [ret |-> h, file |-> f, saved |-> FALSE]
  ELSE LET newEntry == HistoryEntry(command, now)
       IN  [ret |-> Append(h, newEntry),
            file |-> saveCommandHistory(f, Append(loadCommandHistory(f, "ok"), newEntry),
                                        cfg, io, cut),
            saved |-> TRUE]

\* addToHistory(command, history, config): the sequence it returns, the file
\* it leaves, and whether it called saveCommandHistory
addToHistory(command, h, cfg, f, now, io, cut) ==
  IF Rejected(command, h, cfg)
  THEN [ret |-> h, file |-> f, saved |-> FALSE]
  ELSE LET newHistory == Append(h, HistoryEntry(command, now))
       IN  [ret |-> newHistory,
            file |-> saveCommandHistory(f, newHistory, cfg, io, cut),
            saved |-> TRUE]

\* mutant: history.push(newEntry) on the array passed in
ArgPushed(command, h, cfg, now) ==
  IF Rejected(command, h, cfg) THEN h ELSE Append(h, HistoryEntry(command, now))

\* the array passed to addToHistory, after the call: [...history, newEntry]
\* builds a new array and nothing else writes to the one passed in
ArgAfterAdd(command, h, cfg, now) == h

\* the array passed to saveCommandHistory, after the call: slice() builds a
\* new array
ArgAfterSave(h, cfg) == h

\* mutant: an existing file is left as it is
clearLeavesFile(f, io, cut) == f

\* clearCommandHistory(): JSON.stringify([]) over an existing file
clearCommandHistory(f, io, cut) ==
  IF f.exists
  THEN WriteFile(f, Stringify(JArr(<<>>), 0), io, cut)
  ELSE f

(***************************************************************************)
(* The inputs of the model.                                                *)
(***************************************************************************)
CmdEmpty == <<>>
CmdBlank == <<" ", "\t">>
CmdGitStatus == <<"g","i","t"," ","s","t","a","t","u","s">>
CmdLs == <<"l","s">>
CmdLsSpace == <<"l","s"," ">>
CmdLsUpper == <<"L","s">>
CmdEcho == <<"e","c","h","o"," ","\"","\\","\"">>
CmdExportSecret ==
  <<"e","x","p","o","r","t"," ","S","E","C","R","E","T","=","x","y","z">>
CmdLongToken == <<"c","u","r","l"," ">> \o SubSeq(Lower, 1, 18) \o <<"-","7">>

\* commands of a session, and commands of a single call
SessionCommands == {CmdBlank, CmdGitStatus, CmdLs, CmdExportSecret}
CommandSet ==
  {CmdEmpty, CmdBlank, CmdGitStatus, CmdLs, CmdLsSpace, CmdLsUpper, CmdEcho,
   CmdExportSecret, CmdLongToken}

\* Date.now(): the clock of the model ticks once for every entry of the sequence
Timestamps(h) == {Len(h) + 1}

\* caller patterns: "[l" does not compile, "[gx]i" matches "git status"
PatUnclosed == <<"[", "l">>
PatClass == <<"[", "g", "x", "]", "i">>
PatternLists == {<<>>, <<PatUnclosed, PatClass>>}

Configs ==
  [maxSize : (1..MaxCfgSize) \cup {DEFAULT_HISTORY_SIZE},
   saveHistory : BOOLEAN,
   sensitivePatterns : PatternLists]

\* the end-to-end scenario: four appends from an empty store
Scenario == <<CmdGitStatus, CmdGitStatus, CmdExportSecret, CmdLs>>

\* what the file may hold before the first call of a session
NotJsonText == <<BadTok, Ws, BadTok>>
ObjectText == <<LBrace, StrTok(<<"a">>), Colon, NumTok(<<"1">>), RBrace>>
InitFiles == {Absent, Present(NotJsonText), Present(ObjectText)}

NoCall == [op |-> "none", command |-> <<>>, arg |-> <<>>, saved |-> FALSE, io |-> "none"]

\* the second caller before it has called anything; pc[1] and pc[2] are the
\* positions of the first and the second caller, wrote lists the callers whose
\* append was written without I/O error, in the order of the writes
NoPeer == [history |-> <<>>, pc |-> <<"start", "start">>, wrote |-> <<>>]

Init ==
  /\ file \in InitFiles
  /\ history = <<>>
  /\ config \in Configs
  /\ last = NoCall
  /\ peer = NoPeer
  /\ script = IF file = Absent THEN 0 ELSE Len(Scenario) + 1

\* mutant: the catch block throws the error on to the caller
Rethrown(io) == IF io = "ok" THEN "ok" ELSE "thrown"

\* what a call reports of its I/O: nothing attempted, done, or an error logged
Logged(io) == IF io = "ok" THEN "ok" ELSE "error"

(***************************************************************************)
(* One action per exported function.  history is the sequence the caller   *)
(* holds: what load returned, what it hands to save and to addToHistory,   *)
(* and what addToHistory returned.  last records the call just made: the   *)
(* function, the command it was given, the array it was given as that      *)
(* array is after the call, whether it reached saveCommandHistory, and the *)
(* outcome of its I/O.                                                     *)
(***************************************************************************)
Load ==
  \E io \in ReadOutcomes :
    /\ (~file.exists => io = "ok")
    /\ history' = loadCommandHistory(file, io)
    /\ last' = [op |-> "load", command |-> <<>>, arg |-> <<>>, saved |-> FALSE,
                io |-> IF file.exists THEN Logged(io) ELSE "none"]
    /\ UNCHANGED <<file, config>>

Save ==
  \E io \in WriteOutcomes :
    \E cut \in IF io = "partial" THEN PartialCuts ELSE {0} :
      /\ file' = saveCommandHistory(file, history, config, io, cut)
      /\ last' = [op |-> "save", command |-> <<>>,
                  arg |-> ArgAfterSave(history, config), saved |-> TRUE,
                  io |-> Logged(io)]
      /\ UNCHANGED <<history, config>>

Add(command) ==
  LET rejected == Rejected(command, history, config)
  IN  \E now \in Timestamps(history) :
      \E io \in IF rejected THEN {"ok"} ELSE WriteOutcomes :
      \E cut \in IF io = "partial" THEN PartialCuts ELSE {0} :
        LET r == addToHistory(command, history, config, file, now, io, cut)
        IN  /\ history' = r.ret
            /\ file' = r.file
            /\ last' = [op |-> "append", command |-> command,
                        arg |-> ArgAfterAdd(command, history, config, now),
                        saved |-> r.saved,
                        io |-> IF r.saved THEN Logged(io) ELSE "none"]
            /\ UNCHANGED config

Clear ==
  \E io \in WriteOutcomes \ {"mkdirfail"} :
    \E cut \in IF io = "partial" THEN PartialCuts ELSE {0} :
      /\ (~file.exists => io = "ok")
      /\ file' = clearCommandHistory(file, io, cut)
      /\ last' = [op |-> "clear", command |-> <<>>, arg |-> <<>>, saved |-> FALSE,
                  io |-> IF file.exists THEN Logged(io) ELSE "none"]
      /\ UNCHANGED <<history, config>>

(***************************************************************************)
(* A session: any calls in any order from a fresh start, the caller        *)
(* threading the sequence through them.  script counts how far the calls   *)
(* made so far follow the end-to-end scenario of four appends; any other   *)
(* call leaves the scenario.                                               *)
(***************************************************************************)
OffScenario == Len(Scenario) + 1

Follows(command) ==
  IF script < Len(Scenario) /\ command = Scenario[script + 1]
  THEN script + 1
  ELSE OffScenario

LoadCall == Load /\ script' = OffScenario /\ UNCHANGED peer
SaveCall == Save /\ script' = OffScenario /\ UNCHANGED peer
AppendCall ==
  \E command \in SessionCommands :
    /\ Len(history) < MaxHist
    /\ Add(command)
    /\ script' = Follows(command)
    /\ UNCHANGED peer
ClearCall == Clear /\ script' = OffScenario /\ UNCHANGED peer

Next == LoadCall \/ SaveCall \/ AppendCall \/ ClearCall

Spec == Init /\ [][Next]_vars

(***************************************************************************)
(* A session of appends only, from a fresh start.                          *)
(***************************************************************************)
SpecAppends == Init /\ [][AppendCall]_vars

(***************************************************************************)
(* One call of one function on any sequence, file and config.              *)
(***************************************************************************)
CallCommands == {CmdLs, CmdLsSpace, CmdLsUpper, CmdEcho}

\* the sequences a caller may hold: entries of any commands, in any order
CallSeqs ==
  UNION {{[i \in 1..n |-> HistoryEntry(c[i], 10 * i + 1)] : c \in [1..n -> CallCommands]}
         : n \in 0..MaxSeq}

CallFiles ==
  InitFiles \cup
  {Present(Stringify(JArr(<<>>), 0)),
   Present(Stringify(JArr(<<HistoryEntry(CmdEcho, 5), HistoryEntry(CmdLs, 6)>>), 2))}

InitCall ==
  /\ file \in CallFiles
  /\ history \in CallSeqs
  /\ config \in Configs
  /\ last = NoCall
  /\ script = OffScenario
  /\ peer = NoPeer

LoadOnce == last = NoCall /\ Load /\ UNCHANGED <<script, peer>>
SaveOnce == last = NoCall /\ Save /\ UNCHANGED <<script, peer>>
AppendOnce ==
  last = NoCall /\ UNCHANGED <<script, peer>> /\ \E command \in CommandSet : Add(command)
ClearOnce == last = NoCall /\ Clear /\ UNCHANGED <<script, peer>>

NextCall == LoadOnce \/ SaveOnce \/ AppendOnce \/ ClearOnce

SpecCall == InitCall /\ [][NextCall]_vars

(***************************************************************************)
(* Two callers on one file.  Each loads the file once and then appends one *)
(* command to the sequence it holds; the calls of the two interleave in    *)
(* any order.  A call is one step: the callers race between their calls,   *)
(* from the load of the one to the write of the other.                     *)
(***************************************************************************)
TwoCommands == {CmdGitStatus, CmdLs, CmdEcho, CmdExportSecret}

TwoFiles ==
  {Absent,
   Present(Stringify(JArr(<<HistoryEntry(CmdEcho, 5), HistoryEntry(CmdLs, 6)>>), 2))}

InitTwo ==
  /\ file \in TwoFiles
  /\ history = <<>>
  /\ config \in Configs
  /\ last = NoCall
  /\ script = OffScenario
  /\ peer = NoPeer

\* the callers whose writes went through, after a call of caller id
Wrote(id) ==
  IF last'.saved /\ last'.io = "ok" THEN Append(peer.wrote, id) ELSE peer.wrote

FirstLoad ==
  /\ peer.pc[1] = "start"
  /\ Load
  /\ peer' = [peer EXCEPT !.pc[1] = "loaded"]
  /\ UNCHANGED script

FirstAppend ==
  /\ peer.pc[1] = "loaded"
  /\ \E command \in TwoCommands : Add(command)
  /\ peer' = [peer EXCEPT !.pc[1] = "done", !.wrote = Wrote(1)]
  /\ UNCHANGED script

PeerLoad ==
  /\ peer.pc[2] = "start"
  /\ \E io \in ReadOutcomes :
       /\ (~file.exists => io = "ok")
       /\ peer' = [peer EXCEPT !.history = loadCommandHistory(file, io),
                                !.pc[2] = "loaded"]
       /\ last' = [op |-> "load", command |-> <<>>, arg |-> <<>>, saved |-> FALSE,
                   io |-> IF file.exists THEN Logged(io) ELSE "none"]
  /\ UNCHANGED <<file, history, config, script>>

PeerAppend ==
  /\ peer.pc[2] = "loaded"
  /\ \E command \in TwoCommands :
     \E now \in Timestamps(peer.history) :
     \E io \in IF Rejected(command, peer.history, config) THEN {"ok"} ELSE WriteOutcomes :
     \E cut \in IF io = "partial" THEN PartialCuts ELSE {0} :
       LET r == addToHistory(command, peer.history, config, file, now, io, cut)
       IN  /\ file' = r.file
           /\ last' = [op |-> "append", command |-> command,
                       arg |-> ArgAfterAdd(command, peer.history, config, now),
                       saved |-> r.saved,
                       io |-> IF r.saved THEN Logged(io) ELSE "none"]
           /\ peer' = [peer EXCEPT !.history = r.ret, !.pc[2] = "done",
                                    !.wrote = Wrote(2)]
  /\ UNCHANGED <<history, config, script>>

NextTwo == FirstLoad \/ FirstAppend \/ PeerLoad \/ PeerAppend

SpecTwo == InitTwo /\ [][NextTwo]_vars

(***************************************************************************)
(* The claims.                                                             *)
(***************************************************************************)
\* the entries the backing file holds: those of the array it parses to
FileHolds(f) ==
  IF f.exists /\ JSONParse(f.data).ok /\ JSONParse(f.data).v.t = "arr"
  THEN JSONParse(f.data).v.els
  ELSE <<>>

\* the last n entries of S, in their order; all of S when it has no more than n
LastEntries(S, n) ==
  IF Len(S) <= n THEN S ELSE [i \in 1..n |-> S[Len(S) - n + i]]

\* the call just made reached saveCommandHistory, which met no I/O error
SavedOk == last.saved /\ last.io = "ok"

\* C1: a save that completes without I/O error leaves a file that is a JSON
\* array of at most maxSize entries, and in every state of a session (saves,
\* appends, loads and clears under one maxSize) the file holds at most maxSize
\* entries.
C1_SizeBound ==
  /\ Len(FileHolds(file)) <= config.maxSize
  /\ SavedOk =>
       /\ file.exists
       /\ JSONParse(file.data).ok
       /\ JSONParse(file.data).v.t = "arr"
       /\ Len(JSONParse(file.data).v.els) <= config.maxSize

\* a save of a sequence longer than maxSize went through and filled the file
C1_Witness ==
  /\ SavedOk
  /\ Len(history) > config.maxSize
  /\ Len(FileHolds(file)) = config.maxSize

\* the file holds exactly the last maxSize entries of the sequence saved
HoldsNewest ==
  /\ file.exists
  /\ JSONParse(file.data) = [ok |-> TRUE, v |-> JArr(LastEntries(last.arg, config.maxSize))]

C3_RoundTrip ==
  (last.op = "save" /\ last.io = "ok") =>
    /\ loadCommandHistory(file, "ok") = LastEntries(last.arg, config.maxSize)
    /\ (Len(last.arg) <= config.maxSize => loadCommandHistory(file, "ok") = last.arg)

\* a sequence with a command that holds a quote and a backslash came back whole
C3_Witness ==
  /\ last.op = "save" /\ last.io = "ok"
  /\ Len(last.arg) >= 2
  /\ Len(last.arg) <= config.maxSize
  /\ \E i \in 1..Len(last.arg) : CommandOf(last.arg[i]) = JStr(CmdEcho)
  /\ loadCommandHistory(file, "ok") = last.arg

\* the step is a call of addToHistory with a command the filter calls sensitive
SensitiveAppend ==
  /\ last'.op = "append"
  /\ isSensitiveCommand(last'.command, config.sensitivePatterns)

\* C4: addToHistory of a sensitive command (built-in or compilable caller
\* pattern) returns the sequence it was given and writes nothing: the file is
\* as before, in presence and content.
C4_SensitiveNoWrite ==
  [][SensitiveAppend => (history' = history /\ file' = file /\ ~last'.saved)]_vars

\* a command only a caller pattern matches, listed after a pattern that does
\* not compile, was turned away with history saving on
C4_Witness ==
  /\ last.op = "append"
  /\ config.saveHistory
  /\ config.sensitivePatterns = <<PatUnclosed, PatClass>>
  /\ isSensitiveCommand(last.command, config.sensitivePatterns)
  /\ ~isSensitiveCommand(last.command, <<>>)
  /\ ~last.saved
  /\ history = last.arg
  /\ history # <<>>

\* the step is a call of addToHistory with the command of the last entry
AdjacentDuplicate ==
  /\ last'.op = "append"
  /\ history # <<>>
  /\ CommandOf(history[Len(history)]) = JStr(last'.command)

\* the step is a call of addToHistory with a command that is not sensitive, not
\* blank, held by an earlier entry and not by the last one
EarlierDuplicate ==
  /\ last'.op = "append"
  /\ ~isSensitiveCommand(last'.command, config.sensitivePatterns)
  /\ Trim(last'.command) # <<>>
  /\ \E i \in 1..(Len(history) - 1) : CommandOf(history[i]) = JStr(last'.command)
  /\ CommandOf(history[Len(history)]) # JStr(last'.command)

\* the step is a call of addToHistory, under a config that saves, with a
\* command that is not sensitive and differs from the command of the last
\* entry in case or surrounding white space only
NearDuplicate ==
  /\ last'.op = "append"
  /\ config.saveHistory
  /\ ~isSensitiveCommand(last'.command, config.sensitivePatterns)
  /\ history # <<>>
  /\ CommandOf(history[Len(history)]) # JStr(last'.command)
  /\ \E c \in CommandSet :
       /\ CommandOf(history[Len(history)]) = JStr(c)
       /\ LowerCased(Trim(c)) = LowerCased(Trim(last'.command))
       /\ Trim(c) # <<>>

\* the step stored the command as a new last entry after the old entries
StoredAgain ==
  /\ Len(history') = Len(history) + 1
  /\ SubSeq(history', 1, Len(history)) = history
  /\ CommandOf(history'[Len(history')]) = JStr(last'.command)

\* C5 as stated: an adjacent duplicate is turned away without a save, and a
\* command that is not sensitive, not blank and equal to an earlier entry but
\* not to the last one is stored again, whatever the config.
C5_AsStated ==
  [][/\ AdjacentDuplicate => (history' = history /\ file' = file /\ ~last'.saved)
     /\ EarlierDuplicate => StoredAgain]_vars

\* C5 as amended: the same, the second half under a config that saves history;
\* the comparison with the last entry is exact in case and white space.
C5_AdjacentOnly ==
  [][/\ AdjacentDuplicate => (history' = history /\ file' = file /\ ~last'.saved)
     /\ (EarlierDuplicate /\ config.saveHistory) => StoredAgain
     /\ NearDuplicate => StoredAgain]_vars

\* a command held by the first entry but not by the last was stored again
C5_Witness ==
  /\ last.op = "append"
  /\ last.saved
  /\ Len(last.arg) >= 2
  /\ CommandOf(last.arg[1]) = JStr(last.command)
  /\ CommandOf(last.arg[Len(last.arg)]) # JStr(last.command)
  /\ Len(history) = Len(last.arg) + 1
  /\ CommandOf(history[Len(history)]) = JStr(last.command)

\* C6: addToHistory returns the sequence it was given, saves nothing and leaves
\* the file untouched when config.saveHistory is false or the command is empty
\* after trimming.
C6_DisabledOrBlank ==
  [][(last'.op = "append" /\ (~config.saveHistory \/ Trim(last'.command) = <<>>))
       => (history' = history /\ file' = file /\ ~last'.saved)]_vars

\* a command of white space only was turned away under a config that saves
C6_Witness ==
  /\ last.op = "append"
  /\ last.command = CmdBlank
  /\ config.saveHistory
  /\ ~last.saved
  /\ history = last.arg

\* the step is a call of addToHistory with a command that passes the three checks
PassesChecks ==
  /\ last'.op = "append"
  /\ config.saveHistory
  /\ Trim(last'.command) # <<>>
  /\ ~isSensitiveCommand(last'.command, config.sensitivePatterns)
  /\ (history = <<>> \/ CommandOf(history[Len(history)]) # JStr(last'.command))

\* C7: a command that passes the three checks is returned as exactly one new
\* last entry after the entries given, saveCommandHistory is called, and this
\* holds whatever the outcome of the save.
C7_AdvancesAnyway ==
  [][PassesChecks =>
       /\ StoredAgain
       /\ history'[Len(history')] \in
            {HistoryEntry(last'.command, now) : now \in Timestamps(history)}
       /\ last'.saved]_vars

\* an append whose save failed and left the file without the new entry still
\* returned the longer sequence
C7_Witness ==
  /\ last.op = "append"
  /\ last.saved
  /\ last.io = "error"
  /\ Len(history) = Len(last.arg) + 1
  /\ FileHolds(file) # history
  /\ Len(FileHolds(file)) = 2

\* C8: loadCommandHistory returns [] when the file is absent, unreadable, not
\* JSON, or JSON that is no array, and the parsed array otherwise.
C8_LoadRecovers ==
  [][last'.op = "load" =>
       /\ history' =
            IF /\ file.exists
               /\ last'.io = "ok"
               /\ JSONParse(file.data).ok
               /\ JSONParse(file.data).v.t = "arr"
            THEN JSONParse(file.data).v.els
            ELSE <<>>
       /\ (file \in {Absent, Present(NotJsonText), Present(ObjectText)}
             => history' = <<>>)
       /\ file' = file]_vars

\* a load of a file holding a JSON object dropped the sequence held before
C8_Witness ==
  /\ last.op = "load"
  /\ last.io = "ok"
  /\ file = Present(ObjectText)
  /\ JSONParse(file.data).ok
  /\ history = <<>>

\* C9 as stated: after a clear, a load returns the empty sequence.
C9_AsStated ==
  last.op = "clear" => \A io \in ReadOutcomes : loadCommandHistory(file, io) = <<>>

\* C9 as amended: after a clear, a load returns the empty sequence unless the
\* write of the clear failed and left the file as it was; a clear without I/O
\* error turns an existing file into the empty array and leaves an absent file
\* absent.
C9_ClearThenLoad ==
  [][last'.op = "clear" =>
       /\ (last'.io # "error" \/ file' # file)
            => \A io \in ReadOutcomes : loadCommandHistory(file', io) = <<>>
       /\ (file.exists /\ last'.io = "ok") => file' = Present(<<LBracket, RBracket>>)
       /\ ~file.exists => file' = Absent]_vars

\* a clear emptied a file that held entries
C9_Witness ==
  /\ last.op = "clear"
  /\ last.io = "ok"
  /\ file = Present(<<LBracket, RBracket>>)
  /\ loadCommandHistory(file, "ok") = <<>>

\* the four appends of the scenario have been made, from an absent file and an
\* empty sequence, under the default config
ScenarioDone == script = Len(Scenario) /\ config = DEFAULT_HISTORY_CONFIG

\* C10 as stated: after the scenario the file holds git status, then ls.
C10_AsStated ==
  ScenarioDone => Commands(FileHolds(file)) = <<JStr(CmdGitStatus), JStr(CmdLs)>>

\* C10 as amended: the same when the save of the last append met no I/O error;
\* the sequence returned holds the two commands in any case.
C10_EndToEnd ==
  ScenarioDone =>
    /\ Commands(history) = <<JStr(CmdGitStatus), JStr(CmdLs)>>
    /\ last.io = "ok" =>
         /\ Commands(FileHolds(file)) = <<JStr(CmdGitStatus), JStr(CmdLs)>>
         /\ FileHolds(file) = history

\* the scenario ran to its end with the last save done
C10_Witness ==
  /\ ScenarioDone
  /\ last.command = CmdLs
  /\ last.io = "ok"
  /\ Len(FileHolds(file)) = 2

\* the caller patterns that compile, in their order
Compilable(patterns) == SelectSeq(patterns, LAMBDA src : RegExpCompile(src).ok)

\* at least one built-in pattern, or one caller pattern that compiles, matches
SomePatternMatches(command, patterns) ==
  \/ MatchesToken(command)
  \/ \E w \in {WPassword, WSecret, WToken, WKey} : MatchesWord(command, w)
  \/ \E n \in 1..Len(Compilable(patterns)) :
       RegExpTest(RegExpCompile(Compilable(patterns)[n]).re, command)

\* the step is a call of addToHistory that no check but the filter can stop
OnlyFilterStops ==
  /\ last'.op = "append"
  /\ config.saveHistory
  /\ Trim(last'.command) # <<>>
  /\ (history = <<>> \/ CommandOf(history[Len(history)]) # JStr(last'.command))

\* C11: a command is classified sensitive exactly when a built-in pattern or a
\* caller pattern that compiles matches it; a caller pattern that does not
\* compile is skipped, and the patterns listed after it are still tried.  The
\* classification is what decides whether addToHistory stores the command.
C11_DecisionRule ==
  [][/\ last'.op = "append" =>
          (isSensitiveCommand(last'.command, config.sensitivePatterns)
             <=> SomePatternMatches(last'.command, config.sensitivePatterns))
     /\ OnlyFilterStops =>
          (last'.saved <=> ~SomePatternMatches(last'.command, config.sensitivePatterns))
     /\ (OnlyFilterStops /\ last'.command = CmdGitStatus) =>
          (last'.saved <=> config.sensitivePatterns = <<>>)
     /\ (OnlyFilterStops /\ last'.command \in {CmdExportSecret, CmdLongToken}) =>
          ~last'.saved
     /\ (OnlyFilterStops /\ last'.command \in CallCommands) => last'.saved]_vars

\* the filter stopped a command on the strength of the second caller pattern,
\* the first one being a syntax error
C11_Witness ==
  /\ last.op = "append"
  /\ last.command = CmdGitStatus
  /\ config.saveHistory
  /\ Len(config.sensitivePatterns) = 2
  /\ ~RegExpCompile(config.sensitivePatterns[1]).ok
  /\ RegExpCompile(config.sensitivePatterns[2]).ok
  /\ ~last.saved
  /\ history = <<>>

\* the ways a call ends: without I/O, with its I/O done, or with the error of
\* its I/O caught and logged; each of them returns to the caller
NormalEnds == {"none", "ok", "error"}

\* C12: every call of load, save, append and clear returns to its caller,
\* whatever fails in its I/O (mkdir, read, write): a load that fails returns
\* the empty sequence, an append whose save fails returns the sequence with
\* the new entry, a save or clear that fails leaves the caller's sequence
\* alone, and no state is one of a call ended by an error.
C12_NoFailurePropagates ==
  [][/\ last'.io \in NormalEnds
     /\ last'.op \in {"load", "save", "append", "clear"}
     /\ (last'.op = "load" /\ last'.io = "error") => history' = <<>>
     /\ (last'.op = "append" /\ last'.io = "error") =>
          /\ Len(history') = Len(history) + 1
          /\ SubSeq(history', 1, Len(history)) = history
          /\ CommandOf(history'[Len(history')]) = JStr(last'.command)
     /\ last'.op \in {"save", "clear"} => history' = history
     /\ config' = config]_vars

\* two appends in a row lost their save to a failing mkdir or write, and the
\* session went on with both entries
C12_Witness ==
  /\ last.op = "append"
  /\ last.io = "error"
  /\ Len(history) = 2
  /\ FileHolds(file) = <<>>
  /\ config.maxSize = MaxCfgSize

\* C13 as stated: the file is absent or present with at most maxSize entries,
\* and only load and clear move it into or out of absence: save and append
\* never change whether the file exists.
C13_AsStated ==
  [][/\ Len(FileHolds(file')) <= config.maxSize
     /\ last'.op \in {"save", "append"} => (file'.exists <=> file.exists)]_vars

\* C13 as amended: the file is absent or present with at most maxSize entries
\* (a present file that does not parse holds none); load and clear never
\* change whether the file exists; a file that exists never becomes absent;
\* an absent file comes to exist only through the write of save, called
\* directly or by an append that stores its command, and it does so whenever
\* that write meets no I/O error.
C13_FileTransitions ==
  [][/\ Len(FileHolds(file')) <= config.maxSize
     /\ last'.op \in {"load", "clear"} => (file'.exists <=> file.exists)
     /\ file.exists => file'.exists
     /\ (~file.exists /\ file'.exists) =>
          (last'.op \in {"save", "append"} /\ last'.saved /\ last'.io \in {"ok", "error"})
     /\ (last'.saved /\ last'.io = "ok") => file'.exists
     /\ (last'.op = "append" /\ ~last'.saved) => file' = file]_vars

\* the first call of the session, an append, created the file that was absent
C13_Witness ==
  /\ script = 1
  /\ last.op = "append"
  /\ last.saved
  /\ file.exists
  /\ Len(FileHolds(file)) = 1

\* both callers appended to equal sequences, each a command of its own, and
\* both writes went through
BothWrote ==
  /\ peer.pc = <<"done", "done">>
  /\ Len(peer.wrote) = 2
  /\ Len(history) = Len(peer.history)
  /\ SubSeq(history, 1, Len(history) - 1) = SubSeq(peer.history, 1, Len(history) - 1)
  /\ CommandOf(history[Len(history)]) # CommandOf(peer.history[Len(history)])

\* the sequence returned to caller id
Held(id) == IF id = 1 THEN history ELSE peer.history

\* C14: two callers that hold equal sequences loaded from the file and append
\* one command each, both writes meeting no I/O error, leave a file with the
\* entries of the caller that wrote last: the command of the other is lost.
C14_LostUpdate ==
  BothWrote =>
    LET winner == Held(peer.wrote[2])
        loser == Held(peer.wrote[1])
    IN  /\ FileHolds(file) = LastEntries(winner, config.maxSize)
        /\ CommandOf(FileHolds(file)[Len(FileHolds(file))]) = CommandOf(winner[Len(winner)])
        /\ \A i \in 1..Len(FileHolds(file)) : FileHolds(file)[i] # loser[Len(loser)]

\* both callers loaded the same two entries, both wrote, and the file holds the
\* command of the second writer and not that of the first
C14_Witness ==
  /\ BothWrote
  /\ peer.wrote = <<1, 2>>
  /\ Len(history) = 3
  /\ config.maxSize = DEFAULT_HISTORY_SIZE
  /\ Len(FileHolds(file)) = 3
  /\ FileHolds(file)[3] = peer.history[3]
  /\ \A i \in 1..3 : FileHolds(file)[i] # history[3]

\* the document a save of sequence S writes under the config
NewDocument(S) == Present(Stringify(JArr(LastEntries(S, config.maxSize)), 2))

\* C15: a save is atomic on the file: after a call that reached
\* saveCommandHistory, failed or not, the file is as it was before (absent or
\* the whole previous document) or holds the whole new document, and a file
\* that exists after it is a JSON array.
C15_AtomicSave ==
  [][last'.saved =>
       /\ (file' = file \/ file' = NewDocument(history'))
       /\ file'.exists =>
            (JSONParse(file'.data).ok /\ JSONParse(file'.data).v.t = "arr")]_vars

\* a write that failed part-way left a file that is neither the previous
\* document nor the new one, and no JSON
C15_PartialWrite ==
  /\ last.saved
  /\ last.io = "error"
  /\ file.exists
  /\ file # NewDocument(history)
  /\ ~JSONParse(file.data).ok
  /\ file.data # NotJsonText

\* T is S without some of its first entries
IsSuffix(T, S) ==
  /\ Len(T) <= Len(S)
  /\ \A i \in 1..Len(T) : T[i] = S[Len(S) - Len(T) + i]

\* C16: addToHistory returns the sequence it was given, entry for entry, with
\* at most one entry after it, and leaves the array it was given as it was;
\* what saveCommandHistory writes is the sequence it was given without some
\* of its first entries, in the same order, and it too leaves its array alone.
C16_NeverReordered ==
  [][/\ last'.op = "append" =>
          /\ Len(history) <= Len(history')
          /\ Len(history') <= Len(history) + 1
          /\ SubSeq(history', 1, Len(history)) = history
          /\ last'.arg = history
     /\ last'.op = "save" => (last'.arg = history /\ history' = history)
     /\ (last'.saved /\ file' # file) =>
          LET parsed == JSONParse(file'.data)
          IN  IF parsed.ok
              THEN parsed.v.t = "arr" /\ IsSuffix(parsed.v.els, history')
              ELSE last'.io = "error"]_vars

\* an append to two entries returned three, left the two as they were, and
\* wrote the last one of the three
C16_Witness ==
  /\ last.op = "append"
  /\ last.io = "ok"
  /\ Len(last.arg) = 2
  /\ Len(history) = 3
  /\ SubSeq(history, 1, 2) = last.arg
  /\ last.arg[1] # last.arg[2]
  /\ FileHolds(file) = <<history[3]>>

\* the strings of the text on disk, as they stand between the quotes
StringsOnDisk == {file.data[i].s : i \in {j \in 1..Len(file.data) : file.data[j].k = "str"}}

\* C17: in a session from an absent or unreadable store and the empty
\* sequence, under one config, no entry of the sequence the caller holds and
\* no string of the file, whole or cut short, is a command the config
\* classifies as sensitive.
C17_NoSensitiveOnDisk ==
  /\ \A i \in 1..Len(history) :
       \E c \in SessionCommands :
         /\ CommandOf(history[i]) = JStr(c)
         /\ ~SomePatternMatches(c, config.sensitivePatterns)
  /\ \A t \in StringsOnDisk : ~SomePatternMatches(t, config.sensitivePatterns)
  /\ \A i \in 1..Len(FileHolds(file)) :
       \E c \in SessionCommands :
         /\ CommandOf(FileHolds(file)[i]) = JStr(c)
         /\ ~SomePatternMatches(c, config.sensitivePatterns)

\* a command that a caller pattern matches was turned away after a command
\* was stored, and the file holds the stored command alone
C17_Witness ==
  /\ last.op = "append"
  /\ last.command = CmdGitStatus
  /\ ~last.saved
  /\ config.saveHistory
  /\ config.sensitivePatterns # <<>>
  /\ Commands(history) = <<JStr(CmdLs)>>
  /\ FileHolds(file) = history

\* C18: a second addToHistory of the same command, on the sequence the first
\* one returned, returns that sequence again and writes nothing, whatever the
\* first call did (turned the command away, or stored it with or without a
\* successful write).
C18_Idempotent ==
  last.op = "append" =>
    \A now \in Timestamps(history) : \A io \in WriteOutcomes : \A cut \in PartialCuts :
      LET second == addToHistory(last.command, history, config, file, now, io, cut)
      IN  /\ second.ret = history
          /\ second.file = file
          /\ ~second.saved

\* the first call stored the command, its write failed, and a second call of
\* the same command meets the entry of the first
C18_Witness ==
  /\ last.op = "append"
  /\ last.saved
  /\ last.io = "error"
  /\ Len(history) = Len(last.arg) + 1
  /\ Len(last.arg) >= 1
  /\ CommandOf(history[Len(history)]) = JStr(last.command)
  /\ ~addToHistory(last.command, history, config, file, 0, "ok", 0).saved

\* no two consecutive entries of S hold the same command
NoAdjacentDuplicates(S) ==
  \A i \in 1..(Len(S) - 1) : CommandOf(S[i]) # CommandOf(S[i + 1])

\* C19: in a session from the empty sequence, whatever saves fail and whatever
\* maxSize >= 1 is, no two consecutive entries of the sequence returned, and no
\* two consecutive entries of the file, hold the same command.
C19_NoAdjacentDuplicates ==
  /\ NoAdjacentDuplicates(history)
  /\ NoAdjacentDuplicates(FileHolds(file))

\* a command was turned away as equal to the last of two entries, both of
\* them in the file
C19_Witness ==
  /\ last.op = "append"
  /\ ~last.saved
  /\ Len(history) = 2
  /\ CommandOf(history[2]) = JStr(last.command)
  /\ Len(FileHolds(file)) = 2
  /\ FileHolds(file) = history

\* the file holds, whole, the last maxSize entries of one of the sequences the
\* session has returned so far: the first n entries of h, for some n
IsSnapshot(f, h) ==
  /\ f.exists
  /\ LET parsed == JSONParse(f.data)
     IN  /\ parsed.ok
         /\ parsed.v.t = "arr"
         /\ \E n \in 0..Len(h) :
              parsed.v.els = LastEntries(SubSeq(h, 1, n), config.maxSize)

\* the write of the step was not cut short
NotCutShort == last'.saved => last'.io = "ok" \/ file' = file

\* C20 as stated: in a session of appends, an append whose save meets no I/O
\* error leaves in the file the last maxSize entries of the sequence it
\* returns; from then on the file always holds the last maxSize entries of a
\* sequence returned earlier, whatever saves fail; the sequence returned is
\* never cut to maxSize.
C20_AsStated ==
  [][/\ (last'.saved /\ last'.io = "ok") => file' = NewDocument(history')
     /\ IsSnapshot(file, history) => IsSnapshot(file', history')
     /\ SubSeq(history', 1, Len(history)) = history]_vars

\* C20, the part that holds: the same, for the appends whose write is not cut
\* short (it is done, or it fails before the file is opened).
C20_CatchesUp ==
  [][/\ (last'.saved /\ last'.io = "ok") => file' = NewDocument(history')
     /\ (IsSnapshot(file, history) /\ NotCutShort) => IsSnapshot(file', history')
     /\ SubSeq(history', 1, Len(history)) = history]_vars

\* after a save that went through, the write of the next append was cut
\* short: the sequence returned has two entries and the file holds no
\* sequence at all
C20_CutShort ==
  /\ last.op = "append"
  /\ last.saved
  /\ last.io = "error"
  /\ Len(history) = 2
  /\ file.exists
  /\ ~JSONParse(file.data).ok
  /\ file.data # NotJsonText
  /\ ~IsSnapshot(file, history)

\* a save went through with three entries returned: the file holds the last
\* maxSize of them, and the sequence returned is longer than maxSize
C20_Witness ==
  /\ last.op = "append"
  /\ last.io = "ok"
  /\ Len(history) = 3
  /\ config.maxSize = MaxCfgSize
  /\ Len(FileHolds(file)) = MaxCfgSize
  /\ file = NewDocument(history)

====
